---- MODULE Spec2Model ----
(***************************************************************************)
(* Go-TestingUtils: the deep-equality comparator IsEqual /                 *)
(* IsEqualLoopBreaker, PrintTruncated, RunTest and RunAllTests of the      *)
(* latest revision of testingutils.go (src/unnamed/part_001).              *)
(*                                                                         *)
(* Values live in a fixed heap of typed cells.  A reflect.Value is the     *)
(* record [typ, ptr, indir, addr]: its type, the word it carries, and the  *)
(* flagIndir / flagAddr bits; two reflect.Values are the same map key      *)
(* exactly when these agree.  All struct fields are exported (flagRO is    *)
(* never set).  Floating-point numbers are multiples of EPSILON/Resolution *)
(* plus the IEEE specials +Inf, -Inf and NaN.                              *)
(***************************************************************************)
EXTENDS Integers, Sequences, FiniteSets, TLC

VARIABLES a, b, res, resRev,          \* one top-level IsEqual call and the swapped call
          val, out,                   \* one PrintTruncated call
          fn, tc, rt,                 \* one RunTest call: function, test case, outcome
          batch, bt                   \* one RunAllTests call: its arguments, its progress

vars == <<a, b, res, resRev, val, out, fn, tc, rt, batch, bt>>

\* ---------------------------------------------------------------- bounds
\* float grid: EPSILON is Resolution grid units
Resolution == 2
\* recursion depth at which the Go runtime's stack is taken to be exhausted
MaxDepth == 8
\* PrintTruncated is tried on strings up to MaxOver characters off the cap
MaxOver == 4
\* and on MaxPattern different strings of each length
MaxPattern == 6
\* functions under test have up to MaxArity parameters and results
MaxArity == 2
\* a batch has up to MaxCases test cases
MaxCases == 5

\* ---------------------------------------------------------------- floats
EPSILON == Resolution

Fin(n) == [cls |-> "fin", v |-> n]
PosInf == [cls |-> "inf", v |-> 1]
NegInf == [cls |-> "inf", v |-> -1]
NaN == [cls |-> "nan", v |-> 0]

\* IEEE-754 x - y
FSub(x, y) ==
  IF x.cls = "nan" \/ y.cls = "nan" THEN NaN
  ELSE IF x.cls = "inf" /\ y.cls = "inf" THEN (IF x.v = y.v THEN NaN ELSE x)
  ELSE IF x.cls = "inf" THEN x
  ELSE IF y.cls = "inf" THEN [cls |-> "inf", v |-> -y.v]
  ELSE Fin(x.v - y.v)

\* IEEE-754 -x
FNeg(x) == IF x.cls = "nan" THEN NaN ELSE [cls |-> x.cls, v |-> -x.v]

\* IEEE-754 x < e for a finite e
FLess(x, e) ==
  CASE x.cls = "nan" -> FALSE
    [] x.cls = "inf" -> x.v < 0
    [] OTHER -> x.v < e

\* IEEE-754 x == y
FEq(x, y) == x.cls # "nan" /\ y.cls # "nan" /\ x = y

\* ---------------------------------------------------------------- heap
Nil == "nil"
NoFloat == Fin(0)

IntCell(n) == [typ |-> "int", kind |-> "Int", iv |-> n, fv |-> NoFloat, to |-> Nil, elems |-> <<>>]
F64Cell(f) == [typ |-> "float64", kind |-> "Float64", iv |-> 0, fv |-> f, to |-> Nil, elems |-> <<>>]
F32Cell(f) == [typ |-> "float32", kind |-> "Float32", iv |-> 0, fv |-> f, to |-> Nil, elems |-> <<>>]
PtrCell(t, l) == [typ |-> t, kind |-> "Ptr", iv |-> 0, fv |-> NoFloat, to |-> l, elems |-> <<>>]
SliceCell(t, es) == [typ |-> t, kind |-> "Slice", iv |-> 0, fv |-> NoFloat, to |-> Nil, elems |-> es]
ArrayCell(t, es) == [typ |-> t, kind |-> "Array", iv |-> 0, fv |-> NoFloat, to |-> Nil, elems |-> es]
StructCell(t, fs) == [typ |-> t, kind |-> "Struct", iv |-> 0, fv |-> NoFloat, to |-> Nil, elems |-> fs]

Scalars ==
     ("i1" :> IntCell(1)) @@ ("i1b" :> IntCell(1)) @@ ("i2" :> IntCell(2))
  @@ ("f0" :> F64Cell(Fin(0))) @@ ("fh" :> F64Cell(Fin(EPSILON \div 2)))
  @@ ("fm" :> F64Cell(Fin(EPSILON - 1))) @@ ("fe" :> F64Cell(Fin(EPSILON)))
  @@ ("fx" :> F64Cell(Fin(10 * EPSILON)))
  @@ ("finf" :> F64Cell(PosInf)) @@ ("fnan" :> F64Cell(NaN))
  @@ ("g0" :> F32Cell(Fin(0))) @@ ("gh" :> F32Cell(Fin(EPSILON \div 2)))

Pointers ==
     ("pnil" :> PtrCell("*int", Nil))
  @@ ("pi1" :> PtrCell("*int", "i1")) @@ ("pi1b" :> PtrCell("*int", "i1b"))
  @@ ("pi2" :> PtrCell("*int", "i2"))
  @@ ("pf0" :> PtrCell("*float64", "f0")) @@ ("pfh" :> PtrCell("*float64", "fh"))
  @@ ("pfx" :> PtrCell("*float64", "fx"))
  @@ ("ppf0" :> PtrCell("**float64", "pf0")) @@ ("ppfh" :> PtrCell("**float64", "pfh"))

\* []int and []float64 slices; the element cells are the backing array
Slices ==
     ("sa" :> SliceCell("[]int", <<"sa0", "sa1", "sa2">>))
  @@ ("sa0" :> IntCell(1)) @@ ("sa1" :> IntCell(2)) @@ ("sa2" :> IntCell(3))
  @@ ("sb" :> SliceCell("[]int", <<"sb0", "sb1">>))
  @@ ("sb0" :> IntCell(1)) @@ ("sb1" :> IntCell(2))
  @@ ("sc" :> SliceCell("[]int", <<"sc0", "sc1", "sc2">>))
  @@ ("sc0" :> IntCell(1)) @@ ("sc1" :> IntCell(2)) @@ ("sc2" :> IntCell(3))
  @@ ("sf" :> SliceCell("[]float64", <<"sf0", "sf1", "sf2">>))
  @@ ("sf0" :> F64Cell(Fin(0))) @@ ("sf1" :> F64Cell(Fin(0))) @@ ("sf2" :> F64Cell(Fin(0)))
  @@ ("sg" :> SliceCell("[]float64", <<"sg0", "sg1", "sg2">>))
  @@ ("sg0" :> F64Cell(Fin(0))) @@ ("sg1" :> F64Cell(Fin(10 * EPSILON)))
  @@ ("sg2" :> F64Cell(Fin(EPSILON)))
  @@ ("sh" :> SliceCell("[]float64", <<"sh0", "sh1", "sh2">>))
  @@ ("sh0" :> F64Cell(Fin(EPSILON \div 2))) @@ ("sh1" :> F64Cell(Fin(0)))
  @@ ("sh2" :> F64Cell(Fin(0)))
  @@ ("se" :> SliceCell("[]int", <<>>))
  @@ ("psa" :> PtrCell("*[]int", "sa")) @@ ("psb" :> PtrCell("*[]int", "sb"))

\* [3]int and [2]int arrays
Arrays ==
     ("aa" :> ArrayCell("[3]int", <<"aa0", "aa1", "aa2">>))
  @@ ("aa0" :> IntCell(1)) @@ ("aa1" :> IntCell(2)) @@ ("aa2" :> IntCell(3))
  @@ ("ab" :> ArrayCell("[2]int", <<"ab0", "ab1">>))
  @@ ("ab0" :> IntCell(1)) @@ ("ab1" :> IntCell(2))
  @@ ("ac" :> ArrayCell("[3]int", <<"ac0", "ac1", "ac2">>))
  @@ ("ac0" :> IntCell(1)) @@ ("ac1" :> IntCell(9)) @@ ("ac2" :> IntCell(8))
  @@ ("paa" :> PtrCell("*[3]int", "aa")) @@ ("pab" :> PtrCell("*[2]int", "ab"))

\* type Rec struct { A int; B float64; C int }
RecCells(l, x, f, z) ==
     (l :> StructCell("Rec", <<l \o ".A", l \o ".B", l \o ".C">>))
  @@ ((l \o ".A") :> IntCell(x)) @@ ((l \o ".B") :> F64Cell(f)) @@ ((l \o ".C") :> IntCell(z))

\* type Rec2 struct { A int; B float64 }
Structs ==
     RecCells("r1", 1, Fin(0), 1) @@ RecCells("r1b", 1, Fin(0), 1)
  @@ RecCells("r2", 2, Fin(0), 1) @@ RecCells("r3", 1, Fin(0), 2)
  @@ RecCells("r4", 1, Fin(10 * EPSILON), 1) @@ RecCells("r5", 1, Fin(EPSILON \div 2), 1)
  @@ ("q1" :> StructCell("Rec2", <<"q1.A", "q1.B">>))
  @@ ("q1.A" :> IntCell(1)) @@ ("q1.B" :> F64Cell(Fin(0)))
  @@ ("pr1" :> PtrCell("*Rec", "r1")) @@ ("pr3" :> PtrCell("*Rec", "r3"))

\* type Node struct { Val int; Next *Node }
NodeCells(l, x, nxt) ==
     (l :> StructCell("Node", <<l \o ".Val", l \o ".Next">>))
  @@ ((l \o ".Val") :> IntCell(x)) @@ ((l \o ".Next") :> PtrCell("*Node", nxt))

\* n1, m1: a node whose Next is itself; n2 <-> n3, m2 <-> m3: a node whose child
\* points back to it; k1 -> k2 -> nil, l1 -> l2 -> nil: lists; type SelfSlice
\* []SelfSlice with ss[0] = ss, tt[0] = tt
Graphs ==
     NodeCells("n1", 1, "n1") @@ NodeCells("m1", 1, "m1")
  @@ NodeCells("n2", 1, "n3") @@ NodeCells("n3", 2, "n2")
  @@ NodeCells("m2", 1, "m3") @@ NodeCells("m3", 2, "m2")
  @@ NodeCells("k1", 1, "k2") @@ NodeCells("k2", 2, Nil)
  @@ NodeCells("l1", 1, "l2") @@ NodeCells("l2", 2, Nil)
  @@ ("pn1" :> PtrCell("*Node", "n1")) @@ ("pm1" :> PtrCell("*Node", "m1"))
  @@ ("pn2" :> PtrCell("*Node", "n2")) @@ ("pm2" :> PtrCell("*Node", "m2"))
  @@ ("pk1" :> PtrCell("*Node", "k1")) @@ ("pl1" :> PtrCell("*Node", "l1"))
  @@ ("ss" :> SliceCell("SelfSlice", <<"ss0">>)) @@ ("ss0" :> SliceCell("SelfSlice", <<"ss0">>))
  @@ ("tt" :> SliceCell("SelfSlice", <<"tt0">>)) @@ ("tt0" :> SliceCell("SelfSlice", <<"tt0">>))

\* type Sh struct { PP **float64; S []*float64 } with PP = &S[0]: the pointer
\* S[0] is reached through PP and through S
ShCells(l, f) ==
     (l :> StructCell("Sh", <<l \o ".PP", l \o ".S">>))
  @@ ((l \o ".PP") :> PtrCell("**float64", l \o ".S0"))
  @@ ((l \o ".S") :> SliceCell("[]*float64", <<l \o ".S0">>))
  @@ ((l \o ".S0") :> PtrCell("*float64", l \o ".F"))
  @@ ((l \o ".F") :> F64Cell(f))

Shared ==
     ShCells("u1", PosInf) @@ ShCells("v1", PosInf)
  @@ ShCells("u2", Fin(0)) @@ ShCells("v2", Fin(0))
  @@ ShCells("u3", Fin(10 * EPSILON))

Heap == Scalars @@ Pointers @@ Slices @@ Arrays @@ Structs @@ Graphs @@ Shared

\* ---------------------------------------------------------------- reflect.Value
\* reflect.ValueOf(x) of a non-pointer x, or a field of a value passed by value:
\* the word points at the cell
Boxed(l) == [typ |-> Heap[l].typ, ptr |-> l, indir |-> TRUE, addr |-> FALSE]
\* reflect.ValueOf(p) of a pointer p: the word is the pointer itself
Direct(l) == [typ |-> Heap[l].typ, ptr |-> Heap[l].to, indir |-> FALSE, addr |-> FALSE]

Kind(v) == IF v.indir THEN Heap[v.ptr].kind ELSE "Ptr"
PtrWord(v) == IF v.indir THEN Heap[v.ptr].to ELSE v.ptr
IsNil(v) == PtrWord(v) = Nil
Elem(v) == [typ |-> Heap[PtrWord(v)].typ, ptr |-> PtrWord(v), indir |-> TRUE, addr |-> TRUE]
CanLen(v) == Kind(v) \in {"Slice", "Array"}
SeqLen(v) == Len(Heap[v.ptr].elems)
\* i counts from 0 as in Go
Index(v, i) ==
  LET l == Heap[v.ptr].elems[i + 1]
  IN [typ |-> Heap[l].typ, ptr |-> l, indir |-> TRUE,
      addr |-> IF Kind(v) = "Slice" THEN TRUE ELSE v.addr]
CanNumField(v) == Kind(v) = "Struct"
NumField(v) == Len(Heap[v.ptr].elems)
Field(v, i) ==
  LET l == Heap[v.ptr].elems[i + 1]
  IN [typ |-> Heap[l].typ, ptr |-> l, indir |-> TRUE, addr |-> v.addr]
CanFloat(v) == Kind(v) \in {"Float64", "Float32"}
Float(v) == Heap[v.ptr].fv

\* ---------------------------------------------------------------- reflect.DeepEqual
RECURSIVE DeepValueEqual(_, _, _)
DeepValueEqual(x, y, visited) ==
  IF x.typ # y.typ THEN FALSE
  ELSE CASE Kind(x) = "Int" -> Heap[x.ptr].iv = Heap[y.ptr].iv
    [] CanFloat(x) -> FEq(Float(x), Float(y))
    [] Kind(x) = "Ptr" ->
         IF PtrWord(x) = PtrWord(y) THEN TRUE
         ELSE IF IsNil(x) \/ IsNil(y) THEN FALSE
         ELSE IF <<PtrWord(x), PtrWord(y)>> \in visited THEN TRUE
         ELSE DeepValueEqual(Elem(x), Elem(y), visited \cup {<<PtrWord(x), PtrWord(y)>>})
    [] Kind(x) = "Slice" ->
         IF SeqLen(x) # SeqLen(y) THEN FALSE
         ELSE IF Heap[x.ptr].elems = Heap[y.ptr].elems THEN TRUE
         ELSE IF <<x.ptr, y.ptr>> \in visited THEN TRUE
         ELSE \A i \in 0..(SeqLen(x) - 1) :
                DeepValueEqual(Index(x, i), Index(y, i), visited \cup {<<x.ptr, y.ptr>>})
    [] Kind(x) = "Array" ->
         \A i \in 0..(SeqLen(x) - 1) : DeepValueEqual(Index(x, i), Index(y, i), visited)
    [] OTHER ->
         \A i \in 0..(NumField(x) - 1) : DeepValueEqual(Field(x, i), Field(y, i), visited)

DeepEqual(x, y) == DeepValueEqual(x, y, {})

\* ---------------------------------------------------------------- IsEqual
\* a diagnostic: its text and, for the floating-point message, the two numbers
\* that %f prints (grid values print exactly at six decimals)
M(text) == [text |-> text, x |-> NoFloat, y |-> NoFloat]
NoMsg == M("")
FloatMsg(x, y) == [text |-> "Failing on a floating-point comparison: %f != %f", x |-> x, y |-> y]

\* the comparator's threaded state: callHistory, the lines t.Logf has written,
\* and (history only) the calls of IsEqualLoopBreaker entered so far, in order
NewCmp == [hist |-> {}, log |-> <<>>, trace |-> <<>>]
\* st: "ok" the call returned (ok, msg); "panic" a reflect method panicked;
\* "overflow" the recursion exhausted the stack
Ret(st, ok, msg, s) ==
  [st |-> st, ok |-> ok, msg |-> msg, hist |-> s.hist, log |-> s.log, trace |-> s.trace]
Threaded(r) == [hist |-> r.hist, log |-> r.log, trace |-> r.trace]

\* the key a call looks up: callHistoryElem{a, b} of its arguments
LookupKey(a0, b0) == <<a0, b0>>
\* the key a call registers: callHistoryElem{a, b} after the pointer indirection
RegisterKey(a0, b0, x, y) == <<x, y>>
\* faulty variant: the check of -diff is lost
FloatOkOneSided(diff) == FLess(diff, EPSILON)
\* (diff < EPSILON) && (-diff < EPSILON)
FloatOk(diff) == FLess(diff, EPSILON) /\ FLess(FNeg(diff), EPSILON)
\* faulty variant: the loops run on after a failing child
StopsNever(r) == FALSE
\* the loops over elements and fields return at the first failing child
StopsAt(r) == ~r.ok
\* the diagnostic a loop returns for its failing child i
ChildMsg(i, r) == r.msg
Child(v, i) == IF Kind(v) = "Struct" THEN Field(v, i) ELSE Index(v, i)
FirstIndex == 0

RECURSIVE IsEqualLoopBreaker(_, _, _, _)
RECURSIVE Children(_, _, _, _, _, _)

\* the one value of a set of one value
Only(S) == CHOOSE v \in S : TRUE

\* the rest of a loop once the call for child i came back with r
AfterChild(x, y, i, n, d, r) ==
  IF r.st # "ok" THEN r
  ELSE IF StopsAt(r) THEN Ret("ok", FALSE, ChildMsg(i, r), Threaded(r))
  ELSE Children(x, y, i + 1, n, Threaded(r), d)

\* for i := ...; i < n; i++ { pass, msg := IsEqualLoopBreaker(child i ...) }
Children(x, y, i, n, s, d) ==
  IF i >= n THEN Ret("ok", TRUE, NoMsg, s)
  ELSE Only({AfterChild(x, y, i, n, d, r) :
               r \in {IsEqualLoopBreaker(Child(x, i), Child(y, i), s, d + 1)}})

IsEqualLoopBreaker(a0, b0, s0, d) ==
  IF d > MaxDepth THEN Ret("overflow", FALSE, NoMsg, s0)
  ELSE
  LET s == [s0 EXCEPT !.trace = Append(@, [d |-> d, a |-> a0, b |-> b0])]
  IN IF LookupKey(a0, b0) \in s.hist THEN Ret("ok", TRUE, NoMsg, s)
     ELSE IF Kind(a0) # Kind(b0) THEN Ret("ok", FALSE, M("Not same types"), s)
     ELSE
     LET deref == Kind(a0) = "Ptr" /\ ~IsNil(a0) /\ ~IsNil(b0)
         x == IF deref THEN Elem(a0) ELSE a0
         y == IF deref THEN Elem(b0) ELSE b0
     IN IF CanFloat(x) THEN
          IF ~CanFloat(y) THEN Ret("panic", FALSE, M("reflect: call of reflect.Value.Float"), s)
          ELSE LET diff == FSub(Float(x), Float(y))
                   ok == FloatOk(diff)
                   msg == IF ok THEN NoMsg ELSE FloatMsg(Float(x), Float(y))
               IN Ret("ok", ok, msg, IF ok THEN s ELSE [s EXCEPT !.log = Append(@, msg)])
        ELSE
        LET s1 == [s EXCEPT !.hist = @ \cup {RegisterKey(a0, b0, x, y)}]
        IN IF CanLen(x) THEN
             IF ~CanLen(y) THEN Ret("panic", FALSE, M("reflect: call of reflect.Value.Len"), s1)
             ELSE IF SeqLen(x) # SeqLen(y)
               THEN Ret("ok", FALSE, M("Slices having different lengths"), s1)
             ELSE Children(x, y, FirstIndex, SeqLen(x), s1, d)
           ELSE IF Kind(x) = "Struct" THEN
             IF ~CanNumField(y)
               THEN Ret("panic", FALSE, M("reflect: call of reflect.Value.NumField"), s1)
             ELSE IF NumField(x) # NumField(y)
               THEN Ret("ok", FALSE, M("Number of fields in struct do not match"), s1)
             ELSE Children(x, y, FirstIndex, NumField(x), s1, d)
           ELSE IF DeepEqual(x, y) THEN Ret("ok", TRUE, NoMsg, s1)
           ELSE Ret("ok", FALSE, M("reflect.DeepEqual failed"), s1)

IsEqual(a0, b0) == IsEqualLoopBreaker(a0, b0, NewCmp, 0)

\* ---------------------------------------------------------------- comparator calls
NotCalled == Ret("none", FALSE, NoMsg, NewCmp)

BoxedRoots ==
  {"i1", "i1b", "i2", "f0", "fh", "fm", "fe", "fx", "finf", "fnan", "g0", "gh",
   "pnil", "pi1", "pi1b", "pi2", "pf0", "pfh", "pfx", "ppf0", "ppfh",
   "sa", "sb", "sc", "sf", "sg", "sh", "se", "psa", "psb",
   "aa", "ab", "ac", "paa", "pab",
   "r1", "r1b", "r2", "r3", "r4", "r5", "q1", "pr1", "pr3",
   "pn1", "pm1", "pn2", "pm2", "pk1", "pl1", "ss", "tt",
   "u1", "v1", "u2", "v2", "u3"}
Roots == {Boxed(l) : l \in BoxedRoots}
           \cup {Direct(l) : l \in {l \in BoxedRoots : Heap[l].kind = "Ptr"}}

NoString == <<>>
NoOut == <<"not called">>
NoFn == [numIn |-> 0, numOut |-> 0]
NoCase == [nIn |-> 0, named |-> FALSE, exp |-> <<>>, got |-> <<>>]
NoTest == [st |-> "none", pass |-> FALSE, msg |-> NoMsg, log |-> <<>>, invoked |-> FALSE,
           compared |-> <<>>]
NoBatch == [shape |-> "none", inSlice |-> TRUE, expSlice |-> TRUE, extra |-> 0, cases |-> <<>>]
NoProgress == [pc |-> "idle", i |-> 0, ran |-> <<>>, errors |-> <<>>, log |-> <<>>]

InitCmp ==
  /\ a \in Roots /\ b \in Roots
  /\ res = NotCalled /\ resRev = NotCalled
  /\ val = NoString /\ out = NoOut
  /\ fn = NoFn /\ tc = NoCase /\ rt = NoTest
  /\ batch = NoBatch /\ bt = NoProgress

\* IsEqual(a, b, t)
CallIsEqual ==
  /\ res.st = "none"
  /\ res' = IsEqual(a, b)
  /\ UNCHANGED <<a, b, resRev, val, out, fn, tc, rt, batch, bt>>

\* IsEqual(b, a, t)
CallIsEqualSwapped ==
  /\ resRev.st = "none"
  /\ resRev' = IsEqual(b, a)
  /\ UNCHANGED <<a, b, res, val, out, fn, tc, rt, batch, bt>>

NextCmp == CallIsEqual \/ CallIsEqualSwapped
SpecCmp == InitCmp /\ [][NextCmp]_vars

\* ---------------------------------------------------------------- PrintTruncated
TruncCap == 5000
\* "\n[...output truncated...]"
Marker ==
  <<"\n", "[", ".", ".", ".", "o", "u", "t", "p", "u", "t", " ",
    "t", "r", "u", "n", "c", "a", "t", "e", "d", ".", ".", ".", "]">>

\* if len(result) < 5000 { return result }; return result[:5000] + marker
Truncated(result) ==
  IF Len(result) < TruncCap THEN result ELSE SubSeq(result, 1, TruncCap) \o Marker

\* fmt.Sprint of a Go string is the string
SprintString(str) == str
\* PrintTruncated(val) for a string val
PrintTruncated(str) == Truncated(SprintString(str))

\* strings of n characters: "b" at every (p+1)-th place, "a" elsewhere
Text(n, p) == [i \in 1..n |-> IF i % (p + 1) = 0 THEN "b" ELSE "a"]
\* lengths from MaxOver below the cap to MaxOver above it, and the short strings
TextLengths == {0, 1} \cup ((TruncCap - MaxOver)..(TruncCap + MaxOver))
Texts == {Text(n, p) : n \in TextLengths, p \in 1..MaxPattern}

InitTrunc ==
  /\ val \in Texts /\ out = NoOut
  /\ a = Boxed("i1") /\ b = Boxed("i1") /\ res = NotCalled /\ resRev = NotCalled
  /\ fn = NoFn /\ tc = NoCase /\ rt = NoTest
  /\ batch = NoBatch /\ bt = NoProgress

CallPrintTruncated ==
  /\ out = NoOut
  /\ out' = PrintTruncated(val)
  /\ UNCHANGED <<a, b, res, resRev, val, fn, tc, rt, batch, bt>>

NextTrunc == CallPrintTruncated
SpecTrunc == InitTrunc /\ [][NextTrunc]_vars

\* ---------------------------------------------------------------- RunTest
\* fmt.Sprint of the value a reflect.Value holds, as a sequence of tokens; fmt
\* follows a pointer to a struct, slice or array only at the top level and
\* prints any other pointer as its address
RECURSIVE SprintAt(_, _)
RECURSIVE SprintFrom(_, _, _)
\* the elements or fields of v from index i on, separated by blanks
SprintFrom(v, i, depth) ==
  IF i >= Len(Heap[v.ptr].elems) THEN <<>>
  ELSE (IF i > 0 THEN <<" ">> ELSE <<>>) \o SprintAt(Child(v, i), depth + 1)
         \o SprintFrom(v, i + 1, depth)
SprintList(v, depth) == SprintFrom(v, 0, depth)
SprintAt(v, depth) ==
  CASE Kind(v) = "Int" -> <<ToString(Heap[v.ptr].iv)>>
    [] CanFloat(v) ->
         (CASE Float(v).cls = "nan" -> <<"NaN">>
            [] Float(v).cls = "inf" -> <<IF Float(v).v > 0 THEN "+Inf" ELSE "-Inf">>
            [] OTHER -> <<ToString(Float(v).v), "u">>)
    [] Kind(v) = "Ptr" ->
         IF IsNil(v) THEN <<"<nil>">>
         ELSE IF depth = 0 /\ Kind(Elem(v)) \in {"Struct", "Slice", "Array"}
           THEN <<"&">> \o SprintAt(Elem(v), depth + 1)
         ELSE <<"0x", PtrWord(v)>>
    [] Kind(v) = "Struct" -> <<"{">> \o SprintList(v, depth) \o <<"}">>
    [] OTHER -> <<"[">> \o SprintList(v, depth) \o <<"]">>
SprintValue(v) == SprintAt(v, 0)
\* PrintTruncated(val) for a reflect.Value val
PrintTruncatedValue(v) == Truncated(SprintValue(v))

\* a line of the test log: what wrote it, the result position it is about and
\* whether the line carries the field name, the printed value, the diagnostic
LogLine(what, pos, tagged, text, msg) ==
  [what |-> what, pos |-> pos, tagged |-> tagged, text |-> text, msg |-> msg]
CmpLines(lines) == [j \in DOMAIN lines |-> LogLine("IsEqual", -1, FALSE, <<>>, lines[j])]
FatalLine(text) == LogLine("Fatal", -1, FALSE, <<>>, M(text))

\* reflect.ValueOf(x): a pointer is carried in the word itself
RootOf(l) == IF Heap[l].kind = "Ptr" THEN Direct(l) ELSE Boxed(l)

\* the outcome of RunTest.  st: "ok" it returned (pass, msg); "fatal" t.Fatal
\* ended the test; "panic", "overflow" the process died.  invoked: fn.Call was
\* reached; compared: the result positions handed to IsEqual, in order
TestRet(st, pass, msg, log, invoked, compared) ==
  [st |-> st, pass |-> pass, msg |-> msg, log |-> log, invoked |-> invoked,
   compared |-> compared]

\* faulty variant: the loop goes on after a mismatch
MismatchIgnored(r) == FALSE
\* if !pass
Mismatch(r) == ~r.ok
\* if len(got) > 1 { name = " (" + exNames[i] + ")" }
Tagged(c) == Len(c.got) > 1

RECURSIVE Positions(_, _, _, _)
\* the rest of the loop body once IsEqual(got[i], expect[i], t) came back with r
AfterIsEqual(c, i, log, compared, r) ==
  IF r.st # "ok" THEN TestRet(r.st, FALSE, r.msg, log \o CmpLines(r.log), TRUE, compared)
  ELSE IF Mismatch(r) THEN
    IF Tagged(c) /\ ~c.named
      THEN TestRet("panic", FALSE, M("index out of range: exNames[i]"),
                   log \o CmpLines(r.log), TRUE, compared)
    ELSE TestRet("ok", FALSE, r.msg,
                 log \o CmpLines(r.log)
                   \o <<LogLine("Expected", i, Tagged(c), PrintTruncatedValue(c.exp[i + 1]), NoMsg),
                        LogLine("Got", i, Tagged(c), PrintTruncatedValue(c.got[i + 1]), NoMsg)>>,
                 TRUE, compared)
  ELSE Positions(c, i + 1, log \o CmpLines(r.log), compared)

\* for i := 0; i < len(got); i++ { pass, msg = IsEqual(got[i], expect[i], t) ... }
Positions(c, i, log, compared) ==
  IF i >= Len(c.got) THEN TestRet("ok", TRUE, NoMsg, log, TRUE, compared)
  ELSE IF i >= Len(c.exp)
    THEN TestRet("panic", FALSE, M("index out of range: expect[i]"), log, TRUE, compared)
  ELSE AfterIsEqual(c, i, log, Append(compared, i), IsEqual(c.got[i + 1], c.exp[i + 1]))

\* c.nIn, c.exp: what rvals makes of invals and expectvals; c.named: expectvals
\* is a struct; c.got: what fn.Call(in) returns, one value per declared output
RunTest(f, c) ==
  IF c.nIn # f.numIn
    THEN TestRet("fatal", FALSE, NoMsg,
                 <<FatalLine("The number of in params doesn't match function parameters.")>>,
                 FALSE, <<>>)
  ELSE IF Len(c.got) # f.numOut
    THEN TestRet("fatal", FALSE, NoMsg,
                 <<FatalLine("The number of expect params doesn't match function results.")>>,
                 TRUE, <<>>)
  ELSE Positions(c, 0, <<>>, <<>>)

\* a result and the value expected for it: equal ints, different ints, floats too
\* far apart, pointers to an int and to a float, two self-referential nodes
PosPairs ==
  {<<"i1", "i1b">>, <<"i1", "i2">>, <<"f0", "fx">>, <<"pf0", "pi1">>, <<"pn1", "pm1">>}
Filler == "i1"
MinNat(m, n) == IF m < n THEN m ELSE n
ExpValue(named, l) == IF named THEN Boxed(l) ELSE RootOf(l)
\* the test case with nIn arguments, nOut results and nExp expected values whose
\* common positions hold the pairs pp
MakeCase(nIn, nOut, named, nExp, pp) ==
  [nIn |-> nIn, named |-> named,
   got |-> [i \in 1..nOut |-> RootOf(IF i <= Len(pp) THEN pp[i][1] ELSE Filler)],
   exp |-> [i \in 1..nExp |-> ExpValue(named, IF i <= Len(pp) THEN pp[i][2] ELSE Filler)]]

InitTest ==
  /\ fn \in [numIn : 1..MaxArity, numOut : 0..MaxArity]
  /\ \E nIn \in 0..(MaxArity + 1), named \in BOOLEAN, nExp \in 0..(MaxArity + 1) :
       /\ (~named => nExp = 1)
       /\ \E pp \in [1..MinNat(fn.numOut, nExp) -> PosPairs] :
            tc = MakeCase(nIn, fn.numOut, named, nExp, pp)
  /\ rt = NoTest
  /\ a = Boxed("i1") /\ b = Boxed("i1") /\ res = NotCalled /\ resRev = NotCalled
  /\ val = NoString /\ out = NoOut
  /\ batch = NoBatch /\ bt = NoProgress

CallRunTest ==
  /\ rt.st = "none"
  /\ rt' = RunTest(fn, tc)
  /\ UNCHANGED <<a, b, res, resRev, val, out, fn, tc, batch, bt>>

NextTest == CallRunTest
SpecTest == InitTest /\ [][NextTest]_vars

\* ---------------------------------------------------------------- RunAllTests
\* the function under test of a batch: one parameter, two results
BatchFn == [numIn |-> 1, numOut |-> 2]
\* test cases: passing; first result wrong; second result wrong (a float);
\* too many arguments; a result whose comparison panics; a result whose
\* comparison does not end
BatchCases ==
  {MakeCase(1, 2, TRUE, 2, <<<<"i1", "i1b">>, <<"f0", "fh">>>>),
   MakeCase(1, 2, TRUE, 2, <<<<"i1", "i2">>, <<"f0", "f0">>>>),
   MakeCase(1, 2, TRUE, 2, <<<<"i1", "i1b">>, <<"f0", "fx">>>>),
   MakeCase(2, 2, TRUE, 2, <<<<"i1", "i1b">>, <<"f0", "fh">>>>),
   MakeCase(1, 2, TRUE, 2, <<<<"pf0", "pi1">>, <<"f0", "fh">>>>),
   MakeCase(1, 2, TRUE, 2, <<<<"pn1", "pm1">>, <<"f0", "fh">>>>)}

\* inSlice, expSlice: allInVals, allExpectVals are slices; cases: the pairs
\* (allIn[i], allExpect[i]); extra: how many more entries allExpectVals has
InitBatch ==
  /\ \E n \in 0..MaxCases, inSlice \in BOOLEAN, expSlice \in BOOLEAN, extra \in {0, 1} :
       /\ (~inSlice \/ ~expSlice \/ extra # 0) => n <= 1
       /\ \E cs \in [1..n -> BatchCases] :
            batch = [shape |-> "given", inSlice |-> inSlice, expSlice |-> expSlice,
                     extra |-> extra, cases |-> cs]
  /\ bt = [pc |-> "start", i |-> 0, ran |-> <<>>, errors |-> <<>>, log |-> <<>>]
  /\ fn = BatchFn /\ tc = NoCase /\ rt = NoTest
  /\ a = Boxed("i1") /\ b = Boxed("i1") /\ res = NotCalled /\ resRev = NotCalled
  /\ val = NoString /\ out = NoOut

\* RunAllTests up to its loop: the three t.Fatal checks
EnterRunAllTests ==
  /\ bt.pc = "start"
  /\ bt' = IF ~batch.inSlice
             THEN [bt EXCEPT !.pc = "fatal", !.log = Append(@, FatalLine("allInVals is not a slice"))]
           ELSE IF ~batch.expSlice
             THEN [bt EXCEPT !.pc = "fatal", !.log = Append(@, FatalLine("allExpectVals is not a slice"))]
           ELSE IF batch.extra # 0
             THEN [bt EXCEPT !.pc = "fatal",
                             !.log = Append(@, FatalLine("Number of input tests doesn't match number of expected results"))]
           ELSE [bt EXCEPT !.pc = "loop"]
  /\ UNCHANGED <<a, b, res, resRev, val, out, fn, tc, rt, batch>>

\* faulty variant: the loop ends at the first failing case
AfterCaseStop(r) == IF r.st = "ok" /\ r.pass THEN "loop" ELSE IF r.st = "ok" THEN "done" ELSE r.st
\* where RunAllTests is after RunTest came back with r, or did not come back
AfterCase(r) == IF r.st = "ok" THEN "loop" ELSE r.st

\* the loop variables after RunTest came back with r, or did not come back:
\* t.Logf("Testing case"), the log of RunTest, t.Errorf if it did not pass
Iteration(r) ==
  [pc |-> AfterCase(r),
   i |-> IF r.st = "ok" THEN bt.i + 1 ELSE bt.i,
   ran |-> Append(bt.ran, bt.i),
   errors |-> IF r.st = "ok" /\ ~r.pass
                THEN Append(bt.errors, [idx |-> bt.i, msg |-> r.msg])
                ELSE bt.errors,
   log |-> Append(bt.log, LogLine("Testing case", bt.i, FALSE, <<>>, NoMsg)) \o r.log
             \o (IF r.st = "ok" /\ ~r.pass
                   THEN <<LogLine("FAIL case", bt.i, FALSE, <<>>, r.msg)>> ELSE <<>>)]

\* one iteration of the loop
RunCase ==
  /\ bt.pc = "loop" /\ bt.i < Len(batch.cases)
  /\ tc' = batch.cases[bt.i + 1]
  /\ rt' = RunTest(fn, tc')
  /\ bt' = Iteration(rt')
  /\ UNCHANGED <<a, b, res, resRev, val, out, fn, batch>>

\* the loop is over: RunAllTests returns
ReturnRunAllTests ==
  /\ bt.pc = "loop" /\ bt.i >= Len(batch.cases)
  /\ bt' = [bt EXCEPT !.pc = "done"]
  /\ UNCHANGED <<a, b, res, resRev, val, out, fn, tc, rt, batch>>

NextBatch == EnterRunAllTests \/ RunCase \/ ReturnRunAllTests
SpecBatch == InitBatch /\ [][NextBatch]_vars

\* ---------------------------------------------------------------- shapes of values
\* the cells a cell refers to
Succs(l) ==
  (IF Heap[l].kind = "Ptr" /\ Heap[l].to # Nil THEN {Heap[l].to} ELSE {})
    \cup {Heap[l].elems[i] : i \in DOMAIN Heap[l].elems}
RECURSIVE Closure(_)
Closure(S) ==
  LET T == S \cup UNION {Succs(l) : l \in S} IN IF T = S THEN S ELSE Closure(T)
CellsOf(v) ==
  IF v.indir THEN Closure({v.ptr}) ELSE IF v.ptr = Nil THEN {} ELSE Closure({v.ptr})
\* v reaches a cell that reaches itself
Cyclic(v) == \E l \in CellsOf(v) : l \in Closure(Succs(l))
\* v reaches a pointer cell that lies on a cycle
PointerCyclic(v) ==
  \E l \in CellsOf(v) : Heap[l].kind = "Ptr" /\ l \in Closure(Succs(l))
Called == res.st # "none"
BothCalled == res.st # "none" /\ resRev.st # "none"
Returned == res.st = "ok"
Abs(n) == IF n < 0 THEN -n ELSE n

\* ---------------------------------------------------------------- claims
\* C1 (as stated): a self-referential structure compared with an isomorphic
\* self-referential structure: the comparison does not exhaust the stack and
\* returns equal = true.
C1_CycleSafety ==
  (Called /\ Cyclic(a) /\ Cyclic(b) /\ DeepEqual(a, b)) => (res.st = "ok" /\ res.ok)

\* C2 (as stated): IsEqual(x, x) returns (true, "") for every value x.
C2_Reflexive ==
  (Called /\ a = b) => (res.st = "ok" /\ res.ok /\ res.msg = NoMsg)

\* C3 (as stated): IsEqual(a, b) and IsEqual(b, a) have the same outcome: both
\* equal, both unequal, or both aborting.
C3_Symmetric ==
  BothCalled => (res.st = resRev.st /\ res.ok = resRev.ok)

\* the operands IsEqualLoopBreaker(a, b) works on after its pointer indirection
Deref == Kind(a) = "Ptr" /\ Kind(b) = "Ptr" /\ ~IsNil(a) /\ ~IsNil(b)
OpA == IF Deref THEN Elem(a) ELSE a
OpB == IF Deref THEN Elem(b) ELSE b
\* the call passes the kind check
SameKind == Kind(a) = Kind(b)

\* the absolute difference of two floating-point numbers is below EPSILON
Within(x, y) == x.cls = "fin" /\ y.cls = "fin" /\ Abs(x.v - y.v) < EPSILON

\* C4: two floating-point values that reach the floating-point comparison
\* compare equal if and only if their absolute difference is strictly less than
\* EPSILON, whichever operand is larger: a difference of EPSILON/2 is equal, of
\* exactly EPSILON and of 10*EPSILON unequal; an unequal result carries the
\* floating-point diagnostic.
C4_FloatTolerance ==
  (Called /\ SameKind /\ CanFloat(OpA) /\ CanFloat(OpB)) =>
    /\ res.st = "ok"
    /\ res.ok <=> Within(Float(OpA), Float(OpB))
    /\ res.msg = IF res.ok THEN NoMsg ELSE FloatMsg(Float(OpA), Float(OpB))

\* C4 witness: two float64 values exactly EPSILON apart, the smaller first, were
\* compared and found unequal
C4_Witness ==
  /\ Called /\ Kind(a) = "Float64" /\ Kind(b) = "Float64"
  /\ Float(a).cls = "fin" /\ Float(b).cls = "fin"
  /\ Float(b).v - Float(a).v = EPSILON
  /\ ~res.ok

\* the calls the top-level call made for its own elements or fields, in order
ElemCalls == SelectSeq(res.trace, LAMBDA e : e.d = 1)
ElemRes(i) == IsEqual(Child(OpA, i), Child(OpB, i))
FailingElems == {i \in 0..(SeqLen(OpA) - 1) : ~ElemRes(i).ok}
MinOf(S) == CHOOSE i \in S : \A j \in S : i <= j
UpTo(n) == [i \in 1..n |-> i - 1]

\* C8: two sequences (slices or arrays) that reach the sequence comparison: if
\* their lengths differ they are unequal with the length diagnostic and no
\* element is compared; otherwise they are equal iff every pair of elements at
\* the same index compares equal, elements are compared in increasing index
\* order up to the lowest failing index and no further, and the diagnostic
\* returned is that of the lowest failing index.
C8_Sequences ==
  (Returned /\ SameKind /\ CanLen(OpA) /\ CanLen(OpB)) =>
    IF SeqLen(OpA) # SeqLen(OpB)
      THEN ~res.ok /\ res.msg = M("Slices having different lengths") /\ ElemCalls = <<>>
      ELSE LET last == IF FailingElems = {} THEN SeqLen(OpA) - 1 ELSE MinOf(FailingElems)
           IN /\ res.ok <=> FailingElems = {}
              /\ ElemCalls = [i \in 1..(last + 1) |->
                                [d |-> 1, a |-> Index(OpA, i - 1), b |-> Index(OpB, i - 1)]]
              /\ res.msg = IF res.ok THEN NoMsg ELSE ElemRes(last).msg

\* C8 witness: two slices of the same length whose elements 1 and 2 both differ
\* were compared, and the comparison stopped at element 1
C8_Witness ==
  /\ Returned /\ Kind(a) = "Slice" /\ Kind(b) = "Slice" /\ SeqLen(a) = SeqLen(b)
  /\ FailingElems = {1, 2}
  /\ Len(ElemCalls) = 2 /\ ~res.ok

\* C9 (as stated): two aggregates of three fields that differ in exactly one
\* field are unequal, and the diagnostic tells which field failed: two such
\* comparisons failing in different fields return different diagnostics.
ThreeFields(x, y) ==
  Kind(x) = "Struct" /\ Kind(y) = "Struct" /\ NumField(x) = 3 /\ NumField(y) = 3
DiffFields(x, y) == {i \in 0..2 : ~IsEqual(Field(x, i), Field(y, i)).ok}
OneFieldDiffers(x, y) == ThreeFields(x, y) /\ Cardinality(DiffFields(x, y)) = 1
StructRoots == {v \in Roots : Kind(v) = "Struct"}
C9_PinpointsField ==
  (Called /\ OneFieldDiffers(a, b)) =>
    /\ res.st = "ok" /\ ~res.ok
    /\ \A x \in StructRoots, y \in StructRoots :
         (OneFieldDiffers(x, y) /\ DiffFields(x, y) # DiffFields(a, b))
           => IsEqual(x, y).msg # res.msg

\* C7 (as stated): PrintTruncated returns the representation unchanged when it is
\* not longer than the cap (length <= cap), and otherwise its first cap
\* characters followed by the truncation marker.
C7_Truncation ==
  (out # NoOut) =>
    out = IF Len(val) <= TruncCap THEN val ELSE SubSeq(val, 1, TruncCap) \o Marker

\* C6 (as stated): RunTest does not return a case result when the number of
\* arguments differs from the function's parameters or the number of expected
\* values differs from its results; with the wrong number of arguments the
\* function is not invoked.
C6_ArityAborts ==
  (rt.st # "none") =>
    /\ (tc.nIn # fn.numIn \/ Len(tc.exp) # fn.numOut) => rt.st # "ok"
    /\ (tc.nIn # fn.numIn) => ~rt.invoked

\* the comparison of result position i with its expected value
PosRes(i) == IsEqual(tc.got[i + 1], tc.exp[i + 1])
BadPositions == {i \in 0..(Len(tc.got) - 1) : i < Len(tc.exp) /\ ~PosRes(i).ok}
ValueLines(log) == SelectSeq(log, LAMBDA l : l.what \in {"Expected", "Got"})

\* C10: when RunTest returns, it has compared the result positions in
\* increasing order up to the first mismatch and no further; on a mismatch it
\* has logged exactly the expected and the actual value of that position, each
\* tagged with the field name iff the function has more than one result, and
\* returns (false, the comparator's diagnostic for that position); it returns
\* (true, "") exactly when every position compares equal.
C10_FirstMismatch ==
  (rt.st = "ok") =>
    LET last == IF BadPositions = {} THEN Len(tc.got) - 1 ELSE MinOf(BadPositions)
    IN /\ rt.pass <=> BadPositions = {}
       /\ rt.compared = UpTo(last + 1)
       /\ rt.pass => (rt.msg = NoMsg /\ ValueLines(rt.log) = <<>>)
       /\ ~rt.pass =>
            /\ rt.msg = PosRes(last).msg
            /\ ValueLines(rt.log) =
                 <<LogLine("Expected", last, Len(tc.got) > 1, Truncated(SprintValue(tc.exp[last + 1])), NoMsg),
                   LogLine("Got", last, Len(tc.got) > 1, Truncated(SprintValue(tc.got[last + 1])), NoMsg)>>
            /\ SubSeq(rt.log, Len(rt.log) - 1, Len(rt.log)) = ValueLines(rt.log)

\* C10 witness: RunTest returned false for a function with two results that both
\* differ from the expected values, having compared only the first
C10_Witness ==
  /\ rt.st = "ok" /\ ~rt.pass
  /\ Len(tc.got) = 2 /\ BadPositions = {0, 1}
  /\ rt.compared = <<0>>

\* a test case passes: every result compares equal to its expected value
CasePasses(c) ==
  \A p \in 1..Len(c.got) : p <= Len(c.exp) /\ IsEqual(c.got[p], c.exp[p]).ok
\* RunTest comes back with a case result: the counts fit and no comparison aborts
CaseReturns(c) ==
  /\ c.nIn = BatchFn.numIn /\ Len(c.exp) = BatchFn.numOut
  /\ \A p \in 1..Len(c.got) : IsEqual(c.got[p], c.exp[p]).st = "ok"
WellFormedBatch ==
  /\ batch.inSlice /\ batch.expSlice /\ batch.extra = 0
  /\ \A k \in DOMAIN batch.cases : CaseReturns(batch.cases[k])
\* the indices below n of the cases that do not pass, in increasing order
FailingBelow(n) == SelectSeq(UpTo(n), LAMBDA k : ~CasePasses(batch.cases[k + 1]))

\* C5: in a batch of equally many inputs and expected values, RunAllTests has
\* at every moment run the single-case runner exactly once for each case below
\* the current index, in increasing order, whatever the earlier cases returned,
\* and has marked exactly one failure, labelled with the case index and the
\* diagnostic, for each of them that did not pass; it returns only after the
\* last case, and a batch in which every case yields a case result is run to
\* the end.
C5_BatchIndependence ==
  /\ bt.pc \in {"loop", "done"} =>
       /\ bt.ran = UpTo(bt.i)
       /\ [j \in DOMAIN bt.errors |-> bt.errors[j].idx] = FailingBelow(bt.i)
       /\ \A j \in DOMAIN bt.errors :
            bt.errors[j].msg = RunTest(fn, batch.cases[bt.errors[j].idx + 1]).msg
  /\ bt.pc = "done" => bt.i = Len(batch.cases)
  /\ (WellFormedBatch /\ bt.pc \notin {"start", "loop"}) => bt.pc = "done"

\* C5 witness: a batch of five cases of which only the third fails was run to
\* the end: all five cases ran and one failure, of case index 2, is reported
C5_Witness ==
  /\ bt.pc = "done" /\ Len(batch.cases) = 5
  /\ FailingBelow(5) = <<2>>
  /\ bt.ran = <<0, 1, 2, 3, 4>>
  /\ Len(bt.errors) = 1 /\ bt.errors[1].idx = 2

\* v is a non-nil pointer to a non-nil pointer
TwoLevels(v) ==
  /\ Kind(v) = "Ptr" /\ ~IsNil(v)
  /\ Kind(Elem(v)) = "Ptr" /\ ~IsNil(Elem(v))

\* C11 (as stated): two pointer-to-pointer-to-float values are compared by the
\* float rule on the floats they lead to: they compare equal if and only if the
\* floats differ by less than EPSILON.
C11_RepeatedIndirection ==
  (/\ Called /\ TwoLevels(a) /\ TwoLevels(b)
   /\ CanFloat(Elem(Elem(a))) /\ CanFloat(Elem(Elem(b)))) =>
    /\ res.st = "ok"
    /\ res.ok <=> Within(Float(Elem(Elem(a))), Float(Elem(Elem(b))))

\* the type category of a value: pointer, sequence, aggregate, floating-point
\* or other scalar
Category(v) ==
  CASE Kind(v) = "Ptr" -> "pointer"
    [] CanLen(v) -> "sequence"
    [] Kind(v) = "Struct" -> "aggregate"
    [] CanFloat(v) -> "float"
    [] OTHER -> "scalar"
NotSameTypes == res.st = "ok" /\ ~res.ok /\ res.msg = M("Not same types")

\* C12 (as stated): a comparison never ends in a panic of a float, length or
\* field operation; two values of different type categories, and two non-nil
\* pointers whose pointees have different type categories, compare unequal with
\* the diagnostic "Not same types".
C12_KindMismatchReported ==
  Called =>
    /\ res.st # "panic"
    /\ Category(a) # Category(b) => NotSameTypes
    /\ (Deref /\ Category(OpA) # Category(OpB)) => NotSameTypes

\* the comparison of IsEqualLoopBreaker without callHistory: no lookup, no
\* registration; st and ok as in Ret
RECURSIVE Unguarded(_, _, _)
RECURSIVE UnguardedChildren(_, _, _, _, _)
UnguardedChildren(x, y, i, n, d) ==
  IF i >= n THEN [st |-> "ok", ok |-> TRUE]
  ELSE LET r == Unguarded(Child(x, i), Child(y, i), d + 1)
       IN IF r.st # "ok" \/ ~r.ok THEN r ELSE UnguardedChildren(x, y, i + 1, n, d)
Unguarded(a0, b0, d) ==
  IF d > MaxDepth THEN [st |-> "overflow", ok |-> FALSE]
  ELSE IF Kind(a0) # Kind(b0) THEN [st |-> "ok", ok |-> FALSE]
  ELSE
  LET deref == Kind(a0) = "Ptr" /\ ~IsNil(a0) /\ ~IsNil(b0)
      x == IF deref THEN Elem(a0) ELSE a0
      y == IF deref THEN Elem(b0) ELSE b0
  IN IF CanFloat(x) THEN
       IF ~CanFloat(y) THEN [st |-> "panic", ok |-> FALSE]
       ELSE [st |-> "ok", ok |-> FloatOk(FSub(Float(x), Float(y)))]
     ELSE IF CanLen(x) THEN
       IF ~CanLen(y) THEN [st |-> "panic", ok |-> FALSE]
       ELSE IF SeqLen(x) # SeqLen(y) THEN [st |-> "ok", ok |-> FALSE]
       ELSE UnguardedChildren(x, y, 0, SeqLen(x), d)
     ELSE IF Kind(x) = "Struct" THEN
       IF ~CanNumField(y) THEN [st |-> "panic", ok |-> FALSE]
       ELSE IF NumField(x) # NumField(y) THEN [st |-> "ok", ok |-> FALSE]
       ELSE UnguardedChildren(x, y, 0, NumField(x), d)
     ELSE [st |-> "ok", ok |-> DeepEqual(x, y)]

\* C13 (as stated): for two values without reference cycles IsEqual ends as the
\* comparison without callHistory ends, with the same equal/unequal result.
C13_GuardTransparent ==
  (Called /\ ~Cyclic(a) /\ ~Cyclic(b)) =>
    /\ res.st = Unguarded(a, b, 0).st
    /\ res.ok = Unguarded(a, b, 0).ok
====
